---- MODULE Spec2Model ----
(***************************************************************************)
(* ForkFunctionRunner.Run (executor/forking_runner.go): one invocation of  *)
(* an external program per request.  The invoker's thread follows the      *)
(* statements of Run.  The child process, the goroutines with which        *)
(* os/exec copies a non-file stdin and stdout, its context watcher, the    *)
(* deadline timer and the diagnostic relay run concurrently with it.       *)
(***************************************************************************)
EXTENDS Integers, Sequences, FiniteSets, TLC

\* ------------------------------------------------------------- bounds
MaxTime == 2      \* clock ticks the model follows
MaxOut  == 2      \* bytes the child writes to its standard output
MaxErr  == 2      \* bytes the child writes to its standard error
PipeCap == 1      \* capacity of an OS pipe, in bytes

\* ------------------------------------------------------------- inputs
Programs    == {"fn", "missing"}                \* req.Process
Executables == {"fn"}                           \* what the host can start
HostEnv     == << <<"PATH", "/bin">> >>         \* os.Environ() of the invoker
NilEnv      == [isNil |-> TRUE,  kv |-> <<>>]   \* a nil []string
Environments == {NilEnv,                        \* req.Environment, KEY=VALUE
                 [isNil |-> FALSE, kv |-> <<>>],
                 [isNil |-> FALSE, kv |-> << <<"A", "1">>, <<"B", "2">> >>]}
Timeouts    == {-1, 0, 1}               \* f.ExecTimeout, in ticks
InputEnds   == {"eof", "err", "hang"}   \* how reading req.InputReader ends

VARIABLES
  f,          \* the runner: ExecTimeout, LogPrefix, LogBufferSize
  req,        \* the FunctionRequest of the invocation
  pc,         \* the statement of Run the invoker is at
  now,        \* wall clock
  start,      \* start := time.Now()
  done,       \* done := time.Since(start); -1 until recorded
  deadline,   \* deadline of the context; -1 when none
  ctx,        \* "none", "background", "armed", "expired", "cancelled"
  defers,     \* the deferred calls of Run, in registration order
  cmd,        \* fields of exec.Cmd set by Run: Stdin is "nil", "reader"
              \* (req.InputReader) or "os.Stdin"
  child,      \* "none", "running", "exit0", "exit1", "killed"
  childEnv,   \* the environment the child observes
  childStdin, \* the child's standard input: "none", "devnull", "pipe",
              \* "inherited" (the invoker's own standard input)
  holder,     \* a descendant of the child holds its stdout/stderr open
  childOut,   \* every byte the child wrote to stdout, in order
  outPipe,    \* stdout pipe contents
  sink,       \* what req.OutputWriter received
  errCount,   \* bytes the child wrote to stderr
  errPipe,    \* stderr pipe contents
  errRd,      \* read end of the stderr pipe: "none", "open", "closed"
  diag,       \* what the host's diagnostic sink (os.Stderr) received
  gIn,        \* stdin copying goroutine: "none", "run", "ok", "err"
  inData,     \* req.InputReader still holds unread data
  gOut,       \* stdout copying goroutine: "none", "run", "ok", "err"
  relay,      \* diagnostic relay: "none", "run", "done"
  closes,     \* calls of req.InputReader.Close()
  cancels,    \* calls of the cancel function of the deadline context
  closed,     \* streams of the caller that Run closed: "input", "output", "diag"
  waited,     \* Process.Wait has returned inside cmd.Wait()
  watchErr,   \* the context watcher of os/exec reported the deadline
  waitErr,    \* the error cmd.Wait() returned
  result,     \* what Run returned
  runs        \* several invocations of Run on the runner f, one record each

vars == <<f, req, pc, now, start, done, deadline, ctx, defers, cmd, child,
          childEnv, childStdin, holder, childOut, outPipe, sink, errCount, errPipe, errRd,
          diag, gIn, inData, gOut, relay, closes, cancels, closed,
          waited, watchErr, waitErr,
          result, runs>>

\* ------------------------------------------------------------- values
NoErr     == <<>>
NoResult  == [set |-> FALSE, ok |-> FALSE, msg |-> <<>>]
NoCmd     == [stdin |-> "nil", env |-> NilEnv, stdout |-> FALSE]
NoReq     == [Process |-> "fn", Environment |-> NilEnv, hasInput |-> FALSE,
              inEnd |-> "eof"]

\* an error message is a sequence of parts
Text(s)   == [t |-> "text", s |-> s,  n |-> 0]
Name(p)   == [t |-> "name", s |-> p,  n |-> 0]
Secs(c)   == [t |-> "secs", s |-> "", n |-> c]

Requests ==
  [Process: Programs, Environment: Environments, hasInput: {FALSE},
   inEnd: {"eof"}]
  \cup
  [Process: Programs, Environment: Environments, hasInput: {TRUE},
   inEnd: InputEnds]

\* the invocations of Run that share the runner
Invocations == {"r1", "r2"}

\* the local variables of an invocation that has not been called yet
NoRun == [pc |-> "idle", Process |-> "fn", hasInput |-> FALSE, ctx |-> "none",
          deadline |-> -1, child |-> "none", spawned |-> 0, closes |-> 0,
          result |-> "none"]

Init ==
  /\ f \in [ExecTimeout: Timeouts, LogPrefix: {TRUE}, LogBufferSize: {1}]
  /\ req = NoReq
  /\ pc = "idle"
  /\ now = 0 /\ start = 0 /\ done = -1 /\ deadline = -1
  /\ ctx = "none"
  /\ defers = <<>>
  /\ cmd = NoCmd
  /\ child = "none" /\ childEnv = <<>> /\ childStdin = "none"
  /\ holder = FALSE
  /\ childOut = <<>> /\ outPipe = <<>> /\ sink = <<>>
  /\ errCount = 0 /\ errPipe = <<>> /\ errRd = "none" /\ diag = <<>>
  /\ gIn = "none" /\ inData = FALSE /\ gOut = "none" /\ relay = "none"
  /\ closes = 0 /\ cancels = 0 /\ closed = {} /\ waited = FALSE /\ watchErr = FALSE /\ waitErr = NoErr
  /\ result = NoResult
  /\ runs = [i \in Invocations |-> NoRun]

\* log.Printf writes one line to the process-wide log (os.Stderr)
LogLine(what) == [k |-> what, v |-> 0]

\* ------------------------------------------------- the invoker's thread
\* Run is called with a request: lines 40-42
Call ==
  /\ pc = "idle"
  /\ \E r \in Requests : req' = r /\ inData' = r.hasInput
  /\ diag' = Append(diag, LogLine("Running"))
  /\ start' = now
  /\ pc' = "L46"
  /\ UNCHANGED <<f, now, done, deadline, ctx, defers, cmd, child, childEnv,
                 childStdin, holder, childOut, outPipe, sink, errCount,
                 errPipe, errRd, gIn, gOut, relay, closes, cancels, closed,
                 waited, watchErr, waitErr, result, runs>>

\* MakeCtx with the test of line 46 written >= : a zero timeout arms a deadline
MakeCtx_NonNegative ==
  /\ pc = "L46"
  /\ IF f.ExecTimeout >= 0
       THEN /\ ctx' = "armed"
            /\ deadline' = now + f.ExecTimeout
            /\ defers' = Append(defers, "cancel")
       ELSE /\ ctx' = "background"
            /\ UNCHANGED <<deadline, defers>>
  /\ pc' = "L54"
  /\ UNCHANGED <<f, req, now, start, done, cmd, child, childEnv, childStdin,
                 holder, childOut, outPipe, sink, errCount, errPipe, errRd,
                 diag, gIn, inData, gOut, relay, closes, cancels, closed,
                 waited, watchErr, waitErr, result, runs>>

\* MakeCtx without the defer of line 49: the cancel function is dropped
MakeCtx_NoDeferredCancel ==
  /\ pc = "L46"
  /\ IF f.ExecTimeout > 0
       THEN /\ ctx' = "armed"
            /\ deadline' = now + f.ExecTimeout
       ELSE /\ ctx' = "background"
            /\ UNCHANGED deadline
  /\ pc' = "L54"
  /\ UNCHANGED <<f, req, now, start, done, defers, cmd, child, childEnv,
                 childStdin, holder, childOut, outPipe, sink, errCount,
                 errPipe, errRd, diag, gIn, inData, gOut, relay, closes,
                 cancels, closed, waited, watchErr, waitErr, result, runs>>

\* lines 46-52: a deadline context when the timeout is positive
MakeCtx ==
  /\ pc = "L46"
  /\ IF f.ExecTimeout > 0
       THEN /\ ctx' = "armed"
            /\ deadline' = now + f.ExecTimeout
            /\ defers' = Append(defers, "cancel")
       ELSE /\ ctx' = "background"
            /\ UNCHANGED <<deadline, defers>>
  /\ pc' = "L54"
  /\ UNCHANGED <<f, req, now, start, done, cmd, child, childEnv, childStdin,
                 holder, childOut, outPipe, sink, errCount, errPipe, errRd,
                 diag, gIn, inData, gOut, relay, closes, cancels, closed,
                 waited, watchErr, waitErr, result, runs>>

\* BuildCmd with line 57 written without defer: the input is closed at once
BuildCmd_CloseNow ==
  /\ pc = "L54"
  /\ IF req.hasInput
       THEN closes' = closes + 1 /\ closed' = closed \cup {"input"}
       ELSE UNCHANGED <<closes, closed>>
  /\ cmd' = [stdin |-> IF req.hasInput THEN "reader" ELSE "nil",
             env |-> req.Environment, stdout |-> TRUE]
  /\ pc' = "L64"
  /\ UNCHANGED <<f, req, now, start, done, deadline, ctx, defers, child,
                 childEnv, childStdin, holder, childOut, outPipe, sink,
                 errCount, errPipe, errRd, diag, gIn, inData, gOut, relay,
                 cancels, waited, watchErr, waitErr, result, runs>>

\* BuildCmd with an else branch for line 56: cmd.Stdin = os.Stdin
BuildCmd_InheritStdin ==
  /\ pc = "L54"
  /\ IF req.hasInput
       THEN defers' = Append(defers, "close")
       ELSE UNCHANGED defers
  /\ cmd' = [stdin |-> IF req.hasInput THEN "reader" ELSE "os.Stdin",
             env |-> req.Environment, stdout |-> TRUE]
  /\ pc' = "L64"
  /\ UNCHANGED <<f, req, now, start, done, deadline, ctx, child, childEnv,
                 childStdin, holder, childOut, outPipe, sink, errCount,
                 errPipe, errRd, diag, gIn, inData, gOut, relay, closes,
                 cancels, closed, waited, watchErr, waitErr, result, runs>>

\* BuildCmd without the defer of line 57
BuildCmd_NoDeferredClose ==
  /\ pc = "L54"
  /\ cmd' = [stdin |-> IF req.hasInput THEN "reader" ELSE "nil",
             env |-> req.Environment, stdout |-> TRUE]
  /\ pc' = "L64"
  /\ UNCHANGED <<f, req, now, start, done, deadline, ctx, defers, child,
                 childEnv, childStdin, holder, childOut, outPipe, sink,
                 errCount, errPipe, errRd, diag, gIn, inData, gOut, relay,
                 closes, cancels, closed, waited, watchErr, waitErr, result,
                 runs>>

\* BuildCmd without line 62: the child's stdout is not bound to the sink
BuildCmd_NoStdout ==
  /\ pc = "L54"
  /\ IF req.hasInput
       THEN defers' = Append(defers, "close")
       ELSE UNCHANGED defers
  /\ cmd' = [stdin |-> IF req.hasInput THEN "reader" ELSE "nil",
             env |-> req.Environment, stdout |-> FALSE]
  /\ pc' = "L64"
  /\ UNCHANGED <<f, req, now, start, done, deadline, ctx, child, childEnv,
                 childStdin, holder, childOut, outPipe, sink, errCount,
                 errPipe, errRd, diag, gIn, inData, gOut, relay, closes,
                 cancels, closed, waited, watchErr, waitErr, result, runs>>

\* lines 54-62: the command, the deferred close of the input, the streams
BuildCmd ==
  /\ pc = "L54"
  /\ IF req.hasInput
       THEN defers' = Append(defers, "close")
       ELSE UNCHANGED defers
  /\ cmd' = [stdin |-> IF req.hasInput THEN "reader" ELSE "nil",
             env |-> req.Environment, stdout |-> TRUE]
  /\ pc' = "L64"
  /\ UNCHANGED <<f, req, now, start, done, deadline, ctx, child, childEnv,
                 childStdin, holder, childOut, outPipe, sink, errCount,
                 errPipe, errRd, diag, gIn, inData, gOut, relay, closes,
                 cancels, closed, waited, watchErr, waitErr, result, runs>>

\* BindStderr without the call of line 67: the pipe is made, nothing reads it
BindStderr_NoRelay ==
  /\ pc = "L64"
  /\ errRd' = "open"
  /\ pc' = "L69"
  /\ UNCHANGED <<f, req, now, start, done, deadline, ctx, defers, cmd, child,
                 childEnv, childStdin, holder, childOut, outPipe, sink,
                 errCount, errPipe, diag, gIn, inData, gOut, relay, closes,
                 cancels, closed, waited, watchErr, waitErr, result, runs>>

\* lines 64-67: the stderr pipe is created and handed to bindLoggingPipe,
\* which starts the relay and returns
BindStderr ==
  /\ pc = "L64"
  /\ errRd' = "open"
  /\ relay' = "run"
  /\ diag' = Append(diag, LogLine("Started logging"))
  /\ pc' = "L69"
  /\ UNCHANGED <<f, req, now, start, done, deadline, ctx, defers, cmd, child,
                 childEnv, childStdin, holder, childOut, outPipe, sink,
                 errCount, errPipe, gIn, inData, gOut, closes, cancels,
                 closed, waited, watchErr, waitErr, result, runs>>

\* line 61 as os/exec reads it: a Cmd whose Env is nil runs the process in
\* the invoker's environment, any other Env is the process's environment
Environ(env) == IF env.isNil THEN HostEnv ELSE env.kv

\* StartError for a command made by exec.Command: cmd.Start() does not look
\* at the context
StartError_ContextIgnored(process, c) ==
  IF process \notin Executables
    THEN <<Text("exec: "), Name(process),
           Text(": executable file not found in $PATH")>>
  ELSE NoErr

\* lines 56-59 as os/exec reads them: a nil Stdin is the null device, the
\* request's reader is copied into a pipe, a file is handed to the child
ChildStdin(s) ==
  CASE s = "nil"      -> "devnull"
    [] s = "reader"   -> "pipe"
    [] s = "os.Stdin" -> "inherited"

\* the error cmd.Start() returns, NoErr when the process was created
StartError(process, c) ==
  IF process \notin Executables
    THEN <<Text("exec: "), Name(process),
           Text(": executable file not found in $PATH")>>
  ELSE IF c = "expired"
    THEN <<Text("context deadline exceeded")>>
  ELSE NoErr

\* Run returns err: the deferred calls run next
Return(err) ==
  /\ result' = [set |-> TRUE, ok |-> (err = NoErr), msg |-> err]
  /\ pc' = "unwind"

\* Start with the error of cmd.Start() dropped: Run goes on to cmd.Wait()
Start_ErrorIgnored ==
  /\ pc = "L69"
  /\ LET err == StartError(req.Process, ctx) IN
       IF err # NoErr
         THEN /\ errRd' = "closed"
              /\ pc' = "L73"
              /\ UNCHANGED <<child, childEnv, childStdin, gIn, gOut, result>>
         ELSE /\ child' = "running"
              /\ childEnv' = Environ(cmd.env)
              /\ childStdin' = ChildStdin(cmd.stdin)
              /\ gIn' = IF cmd.stdin = "reader" THEN "run" ELSE "none"
              /\ gOut' = IF cmd.stdout THEN "run" ELSE "none"
              /\ pc' = "L73"
              /\ UNCHANGED <<errRd, result>>
  /\ UNCHANGED <<f, req, now, start, done, deadline, ctx, defers, cmd,
                 holder, childOut, outPipe, sink, errCount, errPipe, diag,
                 inData, relay, closes, cancels, closed, waited, watchErr,
                 waitErr, runs>>

\* lines 69-71: a failed start closes both ends of the stderr pipe
Start ==
  /\ pc = "L69"
  /\ LET err == StartError(req.Process, ctx) IN
       IF err # NoErr
         THEN /\ Return(err)
              /\ errRd' = "closed"
              /\ UNCHANGED <<child, childEnv, childStdin, gIn, gOut>>
         ELSE /\ child' = "running"
              /\ childEnv' = Environ(cmd.env)
              /\ childStdin' = ChildStdin(cmd.stdin)
              /\ gIn' = IF cmd.stdin = "reader" THEN "run" ELSE "none"
              /\ gOut' = IF cmd.stdout THEN "run" ELSE "none"
              /\ pc' = "L73"
              /\ UNCHANGED <<errRd, result>>
  /\ UNCHANGED <<f, req, now, start, done, deadline, ctx, defers, cmd,
                 holder, childOut, outPipe, sink, errCount, errPipe, diag,
                 inData, relay, closes, cancels, closed, waited, watchErr,
                 waitErr, runs>>

Exited(c) == c \in {"exit0", "exit1", "killed"}
Finished(g) == g \in {"none", "ok", "err"}

\* line 73, first half: cmd.Wait() blocks in Process.Wait until the child
\* has exited
WaitProcess ==
  /\ pc = "L73"
  /\ Exited(child)
  /\ waited' = TRUE
  /\ pc' = "L73g"
  /\ UNCHANGED <<f, req, now, start, done, deadline, ctx, defers, cmd, child,
                 childEnv, childStdin, holder, childOut, outPipe, sink,
                 errCount, errPipe, errRd, diag, gIn, inData, gOut, relay,
                 closes, cancels, closed, watchErr, waitErr, result, runs>>

\* the error cmd.Wait() returns: the exit error, else what the context
\* watcher reported, else a copying error
WaitError(c, we, gi, go) ==
  IF c = "exit1" THEN <<Text("exit status 1")>>
  ELSE IF c = "killed" THEN <<Text("signal: killed")>>
  ELSE IF we THEN <<Text("context deadline exceeded")>>
  ELSE IF go = "err" THEN <<Text("write: output sink failed")>>
  ELSE IF gi = "err" THEN <<Text("read: input stream failed")>>
  ELSE NoErr

\* line 73, second half: cmd.Wait() waits for the copying goroutines, closes
\* the parent's pipe ends (the stderr read end among them) and returns
WaitGoroutines ==
  /\ pc = "L73g"
  /\ Finished(gIn) /\ Finished(gOut)
  /\ errRd' = "closed"
  /\ waitErr' = WaitError(child, watchErr, gIn, gOut)
  /\ pc' = "L74"
  /\ UNCHANGED <<f, req, now, start, done, deadline, ctx, defers, cmd, child,
                 childEnv, childStdin, holder, childOut, outPipe, sink,
                 errCount, errPipe, diag, gIn, inData, gOut, relay, closes,
                 cancels, closed, waited, watchErr, result, runs>>

\* line 74
Elapsed ==
  /\ pc = "L74"
  /\ done' = now - start
  /\ pc' = "L75"
  /\ UNCHANGED <<f, req, now, start, deadline, ctx, defers, cmd, child,
                 childEnv, childStdin, holder, childOut, outPipe, sink,
                 errCount, errPipe, errRd, diag, gIn, inData, gOut, relay,
                 closes, cancels, closed, waited, watchErr, waitErr, result,
                 runs>>

\* done.Seconds() under %.2f: a tick is 4 ms, the figure is in hundredths
Seconds2(d) == (d * 4 + 5) \div 10

\* line 76: fmt.Errorf("%s exited: after %.2fs, error: %s", ...)
ExitedError(process, d, err) ==
  <<Name(process), Text(" exited: after "), Secs(Seconds2(d)),
    Text("s, error: ")>> \o err

\* Finish with the error of line 75 logged and dropped
Finish_ErrorDropped ==
  /\ pc = "L75"
  /\ diag' = Append(diag, LogLine("done"))
  /\ Return(NoErr)
  /\ UNCHANGED <<f, req, now, start, done, deadline, ctx, defers, cmd, child,
                 childEnv, childStdin, holder, childOut, outPipe, sink,
                 errCount, errPipe, errRd, gIn, inData, gOut, relay, closes,
                 cancels, closed, waited, watchErr, waitErr, runs>>

\* Finish testing the exit status of the child instead of err in line 75
Finish_ExitStatusOnly ==
  /\ pc = "L75"
  /\ IF child # "exit0"
       THEN /\ Return(ExitedError(req.Process, done, waitErr))
            /\ UNCHANGED diag
       ELSE /\ diag' = Append(diag, LogLine("done"))
            /\ Return(NoErr)
  /\ UNCHANGED <<f, req, now, start, done, deadline, ctx, defers, cmd, child,
                 childEnv, childStdin, holder, childOut, outPipe, sink,
                 errCount, errPipe, errRd, gIn, inData, gOut, relay, closes,
                 cancels, closed, waited, watchErr, waitErr, runs>>

\* lines 75-81
Finish ==
  /\ pc = "L75"
  /\ IF waitErr # NoErr
       THEN /\ Return(ExitedError(req.Process, done, waitErr))
            /\ UNCHANGED diag
       ELSE /\ diag' = Append(diag, LogLine("done"))
            /\ Return(NoErr)
  /\ UNCHANGED <<f, req, now, start, done, deadline, ctx, defers, cmd, child,
                 childEnv, childStdin, holder, childOut, outPipe, sink,
                 errCount, errPipe, errRd, gIn, inData, gOut, relay, closes,
                 cancels, closed, waited, watchErr, waitErr, runs>>

\* Unwind with the deferred close of line 57 closing the sinks as well
Unwind_ClosesSinks ==
  /\ pc = "unwind"
  /\ IF defers = <<>>
       THEN /\ pc' = "returned"
            /\ UNCHANGED <<defers, closes, cancels, closed, ctx>>
       ELSE LET d == defers[Len(defers)] IN
            /\ defers' = SubSeq(defers, 1, Len(defers) - 1)
            /\ closes' = IF d = "close" THEN closes + 1 ELSE closes
            /\ cancels' = IF d = "cancel" THEN cancels + 1 ELSE cancels
            /\ closed' = IF d = "close"
                           THEN closed \cup {"input", "output", "diag"}
                           ELSE closed
            /\ ctx' = IF d = "cancel" /\ ctx = "armed" THEN "cancelled" ELSE ctx
            /\ UNCHANGED pc
  /\ UNCHANGED <<f, req, now, start, done, deadline, cmd, child, childEnv,
                 childStdin, holder, childOut, outPipe, sink, errCount,
                 errPipe, errRd, diag, gIn, inData, gOut, relay, waited,
                 watchErr, waitErr, result, runs>>

\* lines 49 and 57: on return the deferred calls run, last registered first
Unwind ==
  /\ pc = "unwind"
  /\ IF defers = <<>>
       THEN /\ pc' = "returned"
            /\ UNCHANGED <<defers, closes, cancels, closed, ctx>>
       ELSE LET d == defers[Len(defers)] IN
            /\ defers' = SubSeq(defers, 1, Len(defers) - 1)
            /\ closes' = IF d = "close" THEN closes + 1 ELSE closes
            /\ cancels' = IF d = "cancel" THEN cancels + 1 ELSE cancels
            /\ closed' = IF d = "close" THEN closed \cup {"input"} ELSE closed
            /\ ctx' = IF d = "cancel" /\ ctx = "armed" THEN "cancelled" ELSE ctx
            /\ UNCHANGED pc
  /\ UNCHANGED <<f, req, now, start, done, deadline, cmd, child, childEnv,
                 childStdin, holder, childOut, outPipe, sink, errCount,
                 errPipe, errRd, diag, gIn, inData, gOut, relay, waited,
                 watchErr, waitErr, result, runs>>

\* ------------------------------------------------- clock and deadline
\* time passes while the invoker is in cmd.Start() or cmd.Wait(); the other
\* statements of Run take no time
Tick ==
  /\ pc \in {"L69", "L73", "L73g"}
  /\ now < MaxTime
  /\ now' = now + 1
  /\ UNCHANGED <<f, req, pc, start, done, deadline, ctx, defers, cmd, child,
                 childEnv, childStdin, holder, childOut, outPipe, sink,
                 errCount, errPipe, errRd, diag, gIn, inData, gOut, relay,
                 closes, cancels, closed, waited, watchErr, waitErr, result,
                 runs>>

\* line 48: the timer of context.WithTimeout fires at the deadline
Expire ==
  /\ ctx = "armed"
  /\ now >= deadline
  /\ ctx' = "expired"
  /\ UNCHANGED <<f, req, pc, now, start, done, deadline, defers, cmd, child,
                 childEnv, childStdin, holder, childOut, outPipe, sink,
                 errCount, errPipe, errRd, diag, gIn, inData, gOut, relay,
                 closes, cancels, closed, waited, watchErr, waitErr, result,
                 runs>>

\* Kill for a command made by exec.Command: the context is not watched
Kill_NoContext ==
  /\ FALSE
  /\ UNCHANGED <<f, req, pc, now, start, done, deadline, ctx, defers, cmd,
                 child, childEnv, childStdin, holder, childOut, outPipe,
                 sink, errCount, errPipe, errRd, diag, gIn, inData, gOut,
                 relay, closes, cancels, closed, waited, watchErr, waitErr,
                 result, runs>>

\* line 54: a command made by exec.CommandContext kills its process once the
\* context is done, as long as Process.Wait has not returned
Kill ==
  /\ ctx = "expired"
  /\ pc = "L73"
  /\ child = "running"
  /\ child' = "killed"
  /\ UNCHANGED <<f, req, pc, now, start, done, deadline, ctx, defers, cmd,
                 childEnv, childStdin, holder, childOut, outPipe, sink,
                 errCount, errPipe, errRd, diag, gIn, inData, gOut, relay,
                 closes, cancels, closed, waited, watchErr, waitErr, result,
                 runs>>

\* line 54: when the context is done while the child has exited by itself
\* and Process.Wait has not collected it yet, the kill signal is still
\* delivered and the watcher may report the deadline to cmd.Wait()
KillExited ==
  /\ ctx = "expired"
  /\ pc = "L73"
  /\ child \in {"exit0", "exit1"}
  /\ ~watchErr
  /\ watchErr' = TRUE
  /\ UNCHANGED <<f, req, pc, now, start, done, deadline, ctx, defers, cmd,
                 child, childEnv, childStdin, holder, childOut, outPipe,
                 sink, errCount, errPipe, errRd, diag, gIn, inData, gOut,
                 relay, closes, cancels, closed, waited, waitErr, result,
                 runs>>

\* ------------------------------------------------------------ the child
\* the child prints the bytes 1, 2, ... to stdout and -1, -2, ... to stderr
ChildWriteOut ==
  /\ child = "running"
  /\ Len(childOut) < MaxOut
  /\ Len(outPipe) < PipeCap
  /\ LET b == Len(childOut) + 1 IN
       /\ childOut' = Append(childOut, b)
       /\ outPipe' = Append(outPipe, b)
  /\ UNCHANGED <<f, req, pc, now, start, done, deadline, ctx, defers, cmd,
                 child, childEnv, childStdin, holder, sink, errCount,
                 errPipe, errRd, diag, gIn, inData, gOut, relay, closes,
                 cancels, closed, waited, watchErr, waitErr, result, runs>>

ChildWriteErr ==
  /\ child = "running"
  /\ errCount < MaxErr
  /\ Len(errPipe) < PipeCap
  /\ errCount' = errCount + 1
  /\ errPipe' = Append(errPipe, -(errCount + 1))
  /\ UNCHANGED <<f, req, pc, now, start, done, deadline, ctx, defers, cmd,
                 child, childEnv, childStdin, holder, childOut, outPipe,
                 sink, errRd, diag, gIn, inData, gOut, relay, closes,
                 cancels, closed, waited, watchErr, waitErr, result, runs>>

\* the child leaves a descendant behind that inherited its stdout and stderr
ChildFork ==
  /\ child = "running"
  /\ ~holder
  /\ holder' = TRUE
  /\ UNCHANGED <<f, req, pc, now, start, done, deadline, ctx, defers, cmd,
                 child, childEnv, childStdin, childOut, outPipe, sink,
                 errCount, errPipe, errRd, diag, gIn, inData, gOut, relay,
                 closes, cancels, closed, waited, watchErr, waitErr, result,
                 runs>>

DescendantExit ==
  /\ holder
  /\ holder' = FALSE
  /\ UNCHANGED <<f, req, pc, now, start, done, deadline, ctx, defers, cmd,
                 child, childEnv, childStdin, childOut, outPipe, sink,
                 errCount, errPipe, errRd, diag, gIn, inData, gOut, relay,
                 closes, cancels, closed, waited, watchErr, waitErr, result,
                 runs>>

ChildExit ==
  /\ child = "running"
  /\ \E c \in {"exit0", "exit1"} : child' = c
  /\ UNCHANGED <<f, req, pc, now, start, done, deadline, ctx, defers, cmd,
                 childEnv, childStdin, holder, childOut, outPipe, sink,
                 errCount, errPipe, errRd, diag, gIn, inData, gOut, relay,
                 closes, cancels, closed, waited, watchErr, waitErr, result,
                 runs>>

\* ---------------------------- goroutines of os/exec, lines 58 and 62
\* cmd.Stdin is not a file: a goroutine copies req.InputReader into the
\* child's stdin pipe; a write to the pipe of an exited child ends the copy
\* without an error
StdinCopy ==
  /\ gIn = "run"
  /\ IF inData
       THEN IF child = "running"
              THEN inData' = FALSE /\ UNCHANGED gIn
              ELSE gIn' = "ok" /\ UNCHANGED inData
       ELSE /\ req.inEnd # "hang"
            /\ gIn' = IF req.inEnd = "err" THEN "err" ELSE "ok"
            /\ UNCHANGED inData
  /\ UNCHANGED <<f, req, pc, now, start, done, deadline, ctx, defers, cmd,
                 child, childEnv, childStdin, holder, childOut, outPipe,
                 sink, errCount, errPipe, errRd, diag, gOut, relay, closes,
                 cancels, closed, waited, watchErr, waitErr, result, runs>>

\* cmd.Stdout is not a file: a goroutine copies the stdout pipe into
\* req.OutputWriter until every write end is closed or a write fails
StdoutCopy ==
  /\ gOut = "run"
  /\ IF outPipe # <<>>
       THEN /\ outPipe' = Tail(outPipe)
            /\ \/ sink' = Append(sink, Head(outPipe)) /\ UNCHANGED gOut
               \/ gOut' = "err" /\ UNCHANGED sink
       ELSE /\ child # "running" /\ ~holder
            /\ gOut' = "ok"
            /\ UNCHANGED <<outPipe, sink>>
  /\ UNCHANGED <<f, req, pc, now, start, done, deadline, ctx, defers, cmd,
                 child, childEnv, childStdin, holder, childOut, errCount,
                 errPipe, errRd, diag, gIn, inData, relay, closes, cancels,
                 closed, waited, watchErr, waitErr, result, runs>>

\* ------------------------------------------ the diagnostic relay, line 67
\* bindLoggingPipe's goroutine: copies the stderr pipe to os.Stderr until
\* the pipe is exhausted or its read end is closed
Relay ==
  /\ relay = "run"
  /\ IF errRd = "closed"
       THEN relay' = "done" /\ UNCHANGED <<errPipe, diag>>
       ELSE IF errPipe # <<>>
         THEN /\ diag' = Append(diag, [k |-> "err", v |-> Head(errPipe)])
              /\ errPipe' = Tail(errPipe)
              /\ UNCHANGED relay
         ELSE /\ Exited(child) /\ ~holder
              /\ relay' = "done"
              /\ UNCHANGED <<errPipe, diag>>
  /\ UNCHANGED <<f, req, pc, now, start, done, deadline, ctx, defers, cmd,
                 child, childEnv, childStdin, holder, childOut, outPipe,
                 sink, errCount, errRd, gIn, inData, gOut, closes, cancels,
                 closed, waited, watchErr, waitErr, result, runs>>

\* ------------------------------ several invocations on the same runner
\* Run reads f and keeps everything else in local variables: start, ctx,
\* cancel, cmd, errPipe, err, done (lines 42-74).  Each invocation is
\* followed here through its context, its child, the close of its input and
\* its result; the streams are followed in the single invocation above.

\* lines 40-42
RunCall(i) ==
  /\ runs[i].pc = "idle"
  /\ \E p \in Programs, h \in BOOLEAN :
       runs' = [runs EXCEPT ![i].Process = p, ![i].hasInput = h,
                            ![i].pc = "L46"]
  /\ UNCHANGED <<f, req, pc, now, start, done, deadline, ctx, defers, cmd,
                 child, childEnv, childStdin, holder, childOut, outPipe,
                 sink, errCount, errPipe, errRd, diag, gIn, inData, gOut,
                 relay, closes, cancels, closed, waited, watchErr, waitErr,
                 result>>

\* lines 46-67: the context of the invocation and its command
RunSetup(i) ==
  /\ runs[i].pc = "L46"
  /\ runs' = IF f.ExecTimeout > 0
               THEN [runs EXCEPT ![i].ctx = "armed",
                                 ![i].deadline = now + f.ExecTimeout,
                                 ![i].pc = "L69"]
               ELSE [runs EXCEPT ![i].ctx = "background", ![i].pc = "L69"]
  /\ UNCHANGED <<f, req, pc, now, start, done, deadline, ctx, defers, cmd,
                 child, childEnv, childStdin, holder, childOut, outPipe,
                 sink, errCount, errPipe, errRd, diag, gIn, inData, gOut,
                 relay, closes, cancels, closed, waited, watchErr, waitErr,
                 result>>

\* the deferred calls of lines 49 and 57 as they leave an invocation
Deferred(r, res) ==
  [r EXCEPT !.closes = IF r.hasInput THEN r.closes + 1 ELSE r.closes,
            !.ctx = IF r.ctx = "armed" THEN "cancelled" ELSE r.ctx,
            !.result = res,
            !.pc = "returned"]

\* lines 69-71
RunStart(i) ==
  /\ runs[i].pc = "L69"
  /\ runs' = IF StartError(runs[i].Process, runs[i].ctx) # NoErr
               THEN [runs EXCEPT ![i] = Deferred(runs[i], "fail")]
               ELSE [runs EXCEPT ![i].child = "running",
                                 ![i].spawned = runs[i].spawned + 1,
                                 ![i].pc = "L73"]
  /\ UNCHANGED <<f, req, pc, now, start, done, deadline, ctx, defers, cmd,
                 child, childEnv, childStdin, holder, childOut, outPipe,
                 sink, errCount, errPipe, errRd, diag, gIn, inData, gOut,
                 relay, closes, cancels, closed, waited, watchErr, waitErr,
                 result>>

\* lines 73-81
RunWait(i) ==
  /\ runs[i].pc = "L73"
  /\ Exited(runs[i].child)
  /\ runs' = [runs EXCEPT ![i] =
       Deferred(runs[i],
                IF WaitError(runs[i].child, FALSE, "none", "none") = NoErr
                  THEN "ok" ELSE "fail")]
  /\ UNCHANGED <<f, req, pc, now, start, done, deadline, ctx, defers, cmd,
                 child, childEnv, childStdin, holder, childOut, outPipe,
                 sink, errCount, errPipe, errRd, diag, gIn, inData, gOut,
                 relay, closes, cancels, closed, waited, watchErr, waitErr,
                 result>>

\* line 48: the timer of the invocation's own context
CtxExpire(i) ==
  /\ runs[i].ctx = "armed"
  /\ now >= runs[i].deadline
  /\ runs' = [runs EXCEPT ![i].ctx = "expired"]
  /\ UNCHANGED <<f, req, pc, now, start, done, deadline, ctx, defers, cmd,
                 child, childEnv, childStdin, holder, childOut, outPipe,
                 sink, errCount, errPipe, errRd, diag, gIn, inData, gOut,
                 relay, closes, cancels, closed, waited, watchErr, waitErr,
                 result>>

\* CtxKill for a context kept in the runner: any expired deadline kills
CtxKill_SharedContext(i) ==
  /\ \E j \in Invocations : runs[j].ctx = "expired"
  /\ runs[i].pc = "L73"
  /\ runs[i].child = "running"
  /\ runs' = [runs EXCEPT ![i].child = "killed"]
  /\ UNCHANGED <<f, req, pc, now, start, done, deadline, ctx, defers, cmd,
                 child, childEnv, childStdin, holder, childOut, outPipe,
                 sink, errCount, errPipe, errRd, diag, gIn, inData, gOut,
                 relay, closes, cancels, closed, waited, watchErr, waitErr,
                 result>>

\* line 54: the command watches the context it was made with
CtxKill(i) ==
  /\ runs[i].ctx = "expired"
  /\ runs[i].pc = "L73"
  /\ runs[i].child = "running"
  /\ runs' = [runs EXCEPT ![i].child = "killed"]
  /\ UNCHANGED <<f, req, pc, now, start, done, deadline, ctx, defers, cmd,
                 child, childEnv, childStdin, holder, childOut, outPipe,
                 sink, errCount, errPipe, errRd, diag, gIn, inData, gOut,
                 relay, closes, cancels, closed, waited, watchErr, waitErr,
                 result>>

ProcExit(i) ==
  /\ runs[i].child = "running"
  /\ \E c \in {"exit0", "exit1"} : runs' = [runs EXCEPT ![i].child = c]
  /\ UNCHANGED <<f, req, pc, now, start, done, deadline, ctx, defers, cmd,
                 child, childEnv, childStdin, holder, childOut, outPipe,
                 sink, errCount, errPipe, errRd, diag, gIn, inData, gOut,
                 relay, closes, cancels, closed, waited, watchErr, waitErr,
                 result>>

\* time passes for every invocation alike
ClockTick ==
  /\ now < MaxTime
  /\ now' = now + 1
  /\ UNCHANGED <<f, req, pc, start, done, deadline, ctx, defers, cmd, child,
                 childEnv, childStdin, holder, childOut, outPipe, sink,
                 errCount, errPipe, errRd, diag, gIn, inData, gOut, relay,
                 closes, cancels, closed, waited, watchErr, waitErr, result,
                 runs>>

\* ------------------------------------------------------ specifications
Next ==
  \/ Call \/ MakeCtx \/ BuildCmd \/ BindStderr \/ Start
  \/ WaitProcess \/ WaitGoroutines \/ Elapsed \/ Finish \/ Unwind
  \/ Tick \/ Expire \/ Kill \/ KillExited
  \/ ChildWriteOut \/ ChildWriteErr \/ ChildFork \/ DescendantExit
  \/ ChildExit \/ StdinCopy \/ StdoutCopy \/ Relay

Spec == Init /\ [][Next]_vars

\* Scheduling: the invoker's thread, the goroutines, the timer and the clock
\* keep running.  Nothing makes the child or a descendant of it exit, and a
\* hanging input stream never answers.
Fairness ==
  /\ WF_vars(Call) /\ WF_vars(MakeCtx) /\ WF_vars(BuildCmd)
  /\ WF_vars(BindStderr) /\ WF_vars(Start) /\ WF_vars(WaitProcess)
  /\ WF_vars(WaitGoroutines) /\ WF_vars(Elapsed) /\ WF_vars(Finish)
  /\ WF_vars(Unwind) /\ WF_vars(Tick) /\ WF_vars(Expire) /\ WF_vars(Kill)
  /\ WF_vars(StdinCopy) /\ WF_vars(StdoutCopy) /\ WF_vars(Relay)

FairSpec == Spec /\ Fairness

PairNext ==
  \/ \E i \in Invocations :
       \/ RunCall(i) \/ RunSetup(i) \/ RunStart(i) \/ RunWait(i)
       \/ CtxExpire(i) \/ CtxKill(i) \/ ProcExit(i)
  \/ ClockTick

PairSpec == Init /\ [][PairNext]_vars

\* ------------------------------------------------------------- claims
Returned    == pc = "returned"
StartFailed == result.set /\ child = "none"
CopyFailed  == gIn = "err" \/ gOut = "err"
HasPart(msg, t) == \E i \in 1..Len(msg) : msg[i].t = t

\* C1: once Run has returned, req.InputReader has been closed exactly once
\* when the request carries one, on every exit path; it is never closed
\* twice, and without an input no close is attempted.
C1_InputClosedOnce ==
  /\ closes <= 1
  /\ (~req.hasInput => closes = 0)
  /\ (Returned => closes = IF req.hasInput THEN 1 ELSE 0)

\* the deadline-kill path with an input stream
C1_Witness == Returned /\ req.hasInput /\ closes = 1 /\ child = "killed"

\* C2: with a positive timeout, an expired deadline finds the running child
\* killable, only an expired deadline of a positive timeout kills, a killed
\* child makes Run fail, and once Run has returned the child is not running.
C2_TimeoutKills ==
  /\ (Returned => child # "running")
  /\ (child = "killed" => f.ExecTimeout > 0 /\ ctx = "expired")
  /\ (ctx = "expired" /\ child = "running" => ENABLED Kill)
  /\ (result.set /\ child = "killed" => ~result.ok)

C2_Witness == Returned /\ child = "killed" /\ ~result.ok /\ f.ExecTimeout > 0

\* C3: with a positive timeout every invocation eventually returns, whatever
\* the child does.
C3_Original == (pc = "L46" /\ f.ExecTimeout > 0) ~> Returned

\* C4 as claimed: with a timeout that is zero or negative there is no
\* deadline, the child is never killed, Run returns only after the child
\* exited by itself, and a child that exits 0 yields success.
C4_Original ==
  f.ExecTimeout <= 0 =>
    /\ ctx \in {"none", "background"} /\ deadline = -1
    /\ child # "killed" /\ ~watchErr
    /\ (waited => child \in {"exit0", "exit1"})
    /\ (Returned /\ child = "exit0" => result.ok)

\* C4 as amended: ... and a child that exits 0 yields success unless the
\* copy of the input stream or of the standard output failed.
C4_NoDeadline ==
  f.ExecTimeout <= 0 =>
    /\ ctx \in {"none", "background"} /\ deadline = -1
    /\ child # "killed" /\ ~watchErr
    /\ (waited => child \in {"exit0", "exit1"})
    /\ (Returned /\ child = "exit0" => (result.ok <=> ~CopyFailed))

\* a child that ran as long as the clock is followed and then exited 0
C4_Witness ==
  Returned /\ f.ExecTimeout <= 0 /\ child = "exit0" /\ result.ok
  /\ done = MaxTime

\* C5 as claimed: a child that exits 0 before any deadline makes Run return
\* success, whatever else happened.
C5_Original ==
  Returned /\ child = "exit0" /\ ctx # "expired" => result.ok

\* C5 as amended: a child that exits 0 before any deadline makes Run return
\* success exactly when neither copy (input stream to the child, standard
\* output to the sink) failed; diagnostic output has no influence.
C5_ExitZeroSucceeds ==
  Returned /\ child = "exit0" /\ ctx # "expired" =>
    (result.ok <=> ~CopyFailed)

\* an armed deadline that did not expire, input, output and diagnostics
C5_Witness ==
  Returned /\ child = "exit0" /\ ctx = "cancelled" /\ result.ok
  /\ req.hasInput /\ Len(sink) > 0 /\ errCount > 0

\* C6: Run returns success only when the child exited 0 without being
\* killed; a start failure, a non-zero exit, a kill by the deadline and an
\* error of the wait itself each yield a failure.
C6_SuccessOnlyIfExitZero ==
  result.set =>
    /\ (result.ok => child = "exit0" /\ waited /\ waitErr = NoErr)
    /\ (child \in {"none", "exit1", "killed"} => ~result.ok)
    /\ (watchErr \/ CopyFailed => ~result.ok)

C6_Witness == Returned /\ ~result.ok /\ child = "exit1"

\* C7: when Run returns success the output sink holds exactly the bytes the
\* child wrote to its standard output, in order, and none is still in the
\* pipe.
C7_OutputVerbatim ==
  result.set /\ result.ok => sink = childOut /\ outPipe = <<>>

C7_Witness == Returned /\ result.ok /\ Len(sink) = MaxOut

\* C8: every failure Run returns carries the program name, the elapsed
\* seconds and the cause.
C8_Original ==
  Returned /\ ~result.ok =>
    /\ \E i \in 1..Len(result.msg) :
         result.msg[i].t = "name" /\ result.msg[i].s = req.Process
    /\ HasPart(result.msg, "secs")
    /\ HasPart(result.msg, "text")

\* C9 as claimed: after a failed start no wait was performed and no relay
\* was bound to the stderr pipe.
C9_Original ==
  StartFailed => ~waited /\ relay = "none" /\ errRd = "none"

\* C9 as amended: after a failed start Run returns the start error as it
\* is, no wait was performed and no elapsed time recorded; the relay was
\* bound to the stderr pipe before the start, and the failed start closed
\* the pipe.
C9_StartFailure ==
  StartFailed =>
    /\ ~result.ok /\ ~HasPart(result.msg, "secs")
    /\ pc \in {"unwind", "returned"}
    /\ ~waited /\ waitErr = NoErr /\ done = -1
    /\ gIn = "none" /\ gOut = "none"
    /\ relay # "none" /\ errRd = "closed"

C9_Witness ==
  Returned /\ StartFailed /\ req.Process = "missing" /\ relay = "done"

\* C10: the child's environment is exactly the request's environment
\* sequence; a request whose environment is empty, nil or of length zero,
\* gives the child an empty environment.
C10_Original ==
  child # "none" =>
    /\ childEnv = req.Environment.kv
    /\ (Len(req.Environment.kv) = 0 => childEnv = <<>>)

\* the child's stderr bytes the diagnostic sink received, in order
Relayed == SelectSeq(diag, LAMBDA e : e.k = "err")

\* C11: under every interleaving of the relay with the wait, every byte the
\* child wrote to its stderr reaches the diagnostic sink: once the relay has
\* ended, the sink holds all of them and none is left unread in the pipe,
\* although cmd.Wait() closed the read end of the pipe.
C11_Original ==
  relay = "done" => Len(Relayed) = errCount /\ errPipe = <<>>

\* C12: binding the diagnostic stream returns at once, so that the relay
\* runs beside the invoker's thread from before the start of the child;
\* while the child runs the read end of its stderr pipe stays open and the
\* relay can take a step whenever the pipe holds a byte, so a child that
\* found the pipe full is not blocked forever; the relay ends only on a
\* closed read end or on the end of the stream.
C12_RelayDrains ==
  /\ (pc \in {"L69", "L73", "L73g"} => relay # "none")
  /\ (child = "running" => relay = "run" /\ errRd = "open")
  /\ (child = "running" /\ errPipe # <<>> => ENABLED Relay)
  /\ (relay = "done" =>
        errRd = "closed" \/ (errPipe = <<>> /\ Exited(child) /\ ~holder))

\* the invoker blocked in cmd.Wait(), the child has written more than the
\* pipe holds and the pipe is full again
C12_Witness ==
  /\ pc = "L73" /\ child = "running"
  /\ errCount > PipeCap /\ Len(errPipe) = PipeCap /\ Len(Relayed) > 0

\* C13: an invocation spawns at most one child and owns its process, its
\* deadline and the close of its input: a child is killed only by the
\* expired deadline of its own invocation, a deadline expires only at its
\* own time, each result follows from the invocation's own child, each
\* input is closed once by its own invocation; a step of one invocation
\* changes nothing of another, and no step changes the runner.
C13_Inv ==
  \A i \in Invocations :
    LET r == runs[i] IN
    /\ r.spawned <= 1
    /\ (r.child # "none" <=> r.spawned = 1)
    /\ (r.child = "killed" => r.ctx = "expired")
    /\ (r.ctx = "expired" => r.deadline >= 0 /\ now >= r.deadline)
    /\ (r.ctx # "none" /\ f.ExecTimeout > 0 => r.deadline >= f.ExecTimeout)
    /\ r.closes <= 1
    /\ (r.pc = "returned" =>
          /\ r.closes = IF r.hasInput THEN 1 ELSE 0
          /\ r.ctx # "armed"
          /\ r.child # "running"
          /\ (r.result = "ok" <=> r.child = "exit0"))

C13_Step ==
  /\ f' = f
  /\ \A i, j \in Invocations :
       i # j /\ runs'[i] # runs[i] => runs'[j] = runs[j]

C14_SinksLeftOpen ==
  /\ "output" \notin closed /\ "diag" \notin closed
  /\ closed \subseteq {"input"}
  /\ ("input" \in closed <=> closes > 0)

\* a failure after the child had written output and diagnostics
C14_Witness ==
  /\ Returned /\ ~result.ok /\ child = "exit1" /\ closed = {"input"}
  /\ Len(sink) > 0 /\ Len(Relayed) > 0

\* the lifecycle state of the invocation, read off the statement Run is at
\* and, once Run returns, off its result
Life ==
  IF pc = "idle" THEN "Idle"
  ELSE IF pc \in {"L46", "L54", "L64", "L69"} THEN "Starting"
  ELSE IF pc \in {"L73", "L73g", "L74", "L75"} THEN "Running"
  ELSE IF result.ok THEN "Completed"
  ELSE IF child = "killed" THEN "TimedOut"
  ELSE "Failed"

Terminal == {"Completed", "Failed", "TimedOut"}

LifeEdges ==
  {<<"Idle", "Starting">>, <<"Starting", "Running">>,
   <<"Starting", "Failed">>, <<"Running", "Completed">>,
   <<"Running", "Failed">>, <<"Running", "TimedOut">>}

C15_Inv ==
  /\ (Life = "Running" => child # "none" /\ ~result.set)
  /\ (Life \in {"Idle", "Starting"} => child = "none" /\ ~result.set)
  /\ (Life \in Terminal => result.set)
  /\ (Life \in {"Completed", "TimedOut"} => child # "none" /\ waited)
  /\ (Life \in Terminal =>
        /\ ~ENABLED Start /\ ~ENABLED WaitProcess /\ ~ENABLED WaitGoroutines
        /\ ~ENABLED Kill /\ ~ENABLED KillExited)

C15_Step ==
  /\ Life' = Life \/ <<Life, Life'>> \in LifeEdges
  /\ (Life \in Terminal =>
        child' = child /\ waited' = waited /\ result' = result)

\* C15: an invocation moves only along Idle -> Starting -> Running ->
\* {Completed, Failed, TimedOut} and Starting -> Failed; it is Running only
\* with a started child, Completed or TimedOut only after the wait on a
\* started child, and in a terminal state it stays, with no further start,
\* wait or kill.
C15_Lifecycle == []C15_Inv /\ [][C15_Step]_vars

C15_Witness == Returned /\ Life = "TimedOut" /\ waited

\* cmd.Wait() has returned to Run
WaitReturned == pc \in {"L74", "L75", "unwind", "returned"}

\* C16 as claimed: with a started child, the input is closed only after the
\* wait has returned, and the elapsed time is recorded only after that close.
C16_Original ==
  child # "none" /\ req.hasInput =>
    /\ (closes > 0 => WaitReturned /\ child # "running")
    /\ (done # -1 => closes > 0)

\* C16 as amended: with a started child, the elapsed time is recorded only
\* after the wait has returned and before the input is closed; the input is
\* closed only after that, while Run returns: wait, record elapsed time,
\* close input.
C16_EndOrder ==
  child # "none" /\ req.hasInput =>
    /\ (done # -1 => WaitReturned /\ waited /\ child # "running")
    /\ (pc \in {"L74", "L75"} => closes = 0)
    /\ (closes > 0 => done # -1 /\ result.set /\ pc \in {"unwind", "returned"})

\* time has passed, the wait returned an error and the input is closed
C16_Witness ==
  /\ Returned /\ child = "exit1" /\ req.hasInput /\ closes = 1
  /\ done = MaxTime /\ HasPart(result.msg, "secs")

\* C17: with a positive timeout the cancel function of the deadline context
\* is called once on every exit path of Run, and without one never; once
\* Run has returned the deadline is not armed, it cannot expire any more and
\* no kill can be issued.
C17_DeadlineReleased ==
  /\ cancels <= 1
  /\ (cancels > 0 => f.ExecTimeout > 0 /\ result.set)
  /\ (Returned =>
        /\ cancels = IF f.ExecTimeout > 0 THEN 1 ELSE 0
        /\ ctx # "armed"
        /\ ~ENABLED Expire /\ ~ENABLED Kill /\ ~ENABLED KillExited)

\* the exit path of a failed start, the deadline cancelled before its time
C17_Witness ==
  /\ Returned /\ f.ExecTimeout > 0 /\ req.Process = "missing"
  /\ cancels = 1 /\ ctx = "cancelled" /\ now < deadline

\* the deadline expired while Run had not yet called or left cmd.Start()
ExpiredStarting == pc = "L69" /\ ctx = "expired"

C18_Inv ==
  /\ (ctx \in {"armed", "expired"} => deadline = start + f.ExecTimeout)
  /\ (ExpiredStarting => child = "none" /\ now >= deadline)
  /\ (StartFailed =>
        /\ ~result.ok /\ ~waited /\ done = -1
        /\ ~HasPart(result.msg, "secs")
        /\ (Returned => closes = IF req.hasInput THEN 1 ELSE 0))

C18_Step ==
  ExpiredStarting /\ pc' # pc =>
    /\ child' = "none" /\ ~waited'
    /\ result'.set /\ ~result'.ok
    /\ (req.Process \in Executables =>
          result'.msg = <<Text("context deadline exceeded")>>)

\* C18: the deadline runs from the creation of the context, before the
\* child is started; when it expires while Run is still starting, the start
\* fails: no child runs, no wait is performed, Run returns the start error
\* as a failure and the input is still closed exactly once.
C18_ExpiredWhileStarting == []C18_Inv /\ [][C18_Step]_vars

C18_Witness ==
  /\ Returned /\ req.Process = "fn" /\ child = "none" /\ ctx = "expired"
  /\ result.msg = <<Text("context deadline exceeded")>>
  /\ req.hasInput /\ closes = 1 /\ ~waited

\* C19: for a request without an input stream Run leaves cmd.Stdin unset:
\* the child reads the null device, never the invoker's own standard input;
\* no close is registered or made, no goroutine copies an input, and once
\* the child has exited the wait is held up by nothing on the input side.
C19_NoInput ==
  ~req.hasInput =>
    /\ cmd.stdin = "nil"
    /\ (child # "none" => childStdin = "devnull")
    /\ gIn = "none"
    /\ closes = 0 /\ "input" \notin closed
    /\ (\A i \in 1..Len(defers) : defers[i] # "close")
    /\ (pc = "L73" /\ Exited(child) => ENABLED WaitProcess)
    /\ (pc = "L73g" /\ Finished(gOut) => ENABLED WaitGoroutines)

C19_Witness ==
  /\ Returned /\ ~req.hasInput /\ child = "exit0" /\ result.ok
  /\ childStdin = "devnull" /\ closes = 0

====
